---- MODULE Spec2Model ----
(***************************************************************************)
(* Model of IpnisClientInner (api/onnxruntime/src/client.rs): the session  *)
(* table `sessions: Mutex<HashMap<Path, Arc<Session>>>`, the loader        *)
(* load_session and its two callers call_raw and load_model, run by a      *)
(* bounded number of concurrent tasks.  A task advances from one           *)
(* suspension point (.await) of the code to the next in one step.          *)
(***************************************************************************)
EXTENDS Integers, Sequences, FiniteSets, TLC

\* ---------------------------------------------------------------- bounds
NumCallers == 2
NumPaths == 2
MaxLen == 2
MaxCalls == 3
MaxOutputs == 2

\* ------------------------------------------------------------ value sets
Callers == 1..NumCallers

\* Option::None of sessions.get(path); also "no task" for the mutex owner.
\* Handles (Arc<Session> identities) and callers are numbered from 1.
None == 0

\* `len` before read_u64 returned, buf.len() before read_to_end returned.
Unread == -1

\* Path: a content address with its declared length `len` (path.len).
Paths == {[id |-> i, len |-> ((i - 1) % MaxLen) + 1] : i \in 1..NumPaths}

FirstPath == CHOOSE p \in Paths : p.id = 1

\* What read_u64 / read_to_end can deliver from the byte store's stream.
Lengths == 0..MaxLen

Names == <<"A", "B", "C", "D">>
Data == {"x", "y"}

\* model.outputs: the descriptor names of the Model handed to call_raw; the
\* names of one model are distinct, so the models tried are A, AB, ABC, ...
OutputShapes == {SubSeq(Names, 1, k) : k \in 0..MaxOutputs}

\* Vec<OrtOwnedTensor> returned by session.run: a sequence of raw data.
RawOutputs == UNION {[1..k -> Data] : k \in 0..MaxOutputs}

\* An engine-native descriptor of one input or output slot of a session
\* (session.inputs / session.outputs): its name and its element type.
NativeTypes == {"f32", "unsupported"}

\* session.inputs or session.outputs: up to MaxOutputs slots, named in order.
NativeSlots ==
    UNION {{[i \in 1..k |-> [name |-> Names[i], ty |-> t[i]]] :
                t \in [1..k -> NativeTypes]} : k \in 0..MaxOutputs}

NoSlots == [inputs |-> <<>>, outputs |-> <<>>]

Ops == {"call_raw", "load_model"}

NoResult == [kind |-> "None", err |-> ""]
Ok == [kind |-> "Ok", err |-> ""]
Err(e) == [kind |-> "Err", err |-> e]
Panic == [kind |-> "Panic", err |-> "assert_eq"]
\* A dropped call has no result; `err` records where the future was when it
\* was dropped: "owner" (it owned the mutex), "behind" (it waited while
\* another task owned it) or "free" (it waited, the mutex being free).
Cancelled(where) == [kind |-> "Cancelled", err |-> where]

VARIABLES
    sessions,    \* the HashMap: Path -> handle, None when absent
    lock,        \* owner of the tokio Mutex guarding sessions, None when free
    pc,          \* where each task is
    op,          \* the method the task called
    path,        \* its path argument (model.path for call_raw)
    model,       \* model.outputs of a call_raw
    len,         \* load_session's `len` (the prefix read)
    buf,         \* buf.len() after read_to_end
    session,     \* the Arc<Session> load_session returned to the task
    raw,         \* what session.run returned
    outputs,     \* the Vec<Tensor> call_raw returns
    result,      \* how the call ended
    native,      \* session.inputs and session.outputs as load_model read them
    descriptor,  \* the Model load_model returns: <<>> or <<Model>>
    calls,       \* calls started so far (bounded by MaxCalls)
    fetchCount,  \* history: get_raw calls per path
    buildCount,  \* history: with_model_from_memory calls per path
    failed,      \* history: a load of the path failed or was abandoned
    created,     \* history: every Session built, with the byte count it got
    inserted,    \* history: every (path, handle) given to sessions.insert
    requested,   \* history: the paths load_session has been called with
    snap         \* history: the table as it was when the mutex was last taken,
                 \* brought up to date whenever the mutex is released

vars == <<sessions, lock, pc, op, path, model, len, buf, session, raw, outputs,
          result, native, descriptor, calls, fetchCount, buildCount, failed, created, inserted,
          requested, snap>>

locals == <<op, path, model>>
hist == <<fetchCount, buildCount, failed, created, inserted>>

\* ------------------------------------------------------------- helpers
Min(a, b) == IF a <= b THEN a ELSE b

\* Variant: the lock is granted although another task owns it.
LockNotExclusive(l) == TRUE

\* self.sessions.lock().await completes only when no task owns the mutex.
LockFree(l) == l = None

\* Variant: the lookup never finds the stored handle.
LookupAlwaysMisses(tbl, p) == None

\* sessions.get(path): the stored handle, or None.
Lookup(tbl, p) == tbl[p]

\* Variant: the prefix is not compared with path.len.
LengthUnchecked(l, p) == TRUE

\* `if len != path.len { bail!(..) }`: TRUE when the prefix passes.
LengthValid(l, p) == l = p.len

\* Variant: the assertion after read_to_end is missing.
AssertLenDropped(n, p) == TRUE

\* assert_eq!(buf.len(), path.len as usize): TRUE when the assertion passes.
AssertLen(n, p) == n = p.len

\* Variant: the insert evicts every other entry (a one-entry cache).
InsertEvicting(tbl, p, h) == [q \in DOMAIN tbl |-> IF q = p THEN h ELSE None]

\* sessions.insert(*path, session.clone())
Insert(tbl, p, h) == [tbl EXCEPT ![p] = h]

\* Variant: the built session is returned without being inserted.
NeverInserted(tbl, p, h, built) == tbl

\* Variant: the entry is inserted whether or not the build succeeded.
InsertedBeforeBuild(tbl, p, h, built) == Insert(tbl, p, h)

\* Lines 124-131: the `?` after with_model_from_memory returns before the
\* insert, so the table changes only when the build succeeded.
LoadedTable(tbl, p, h, built) == IF built THEN Insert(tbl, p, h) ELSE tbl

\* Arc::new(session): a handle no earlier build produced.
NewHandle == Cardinality(created) + 1

\* Variant: the names are taken from model.outputs back to front.
CollectNamesReversed(shapes, outs) ==
    [i \in 1..Min(Len(shapes), Len(outs)) |->
        [name |-> shapes[Len(shapes) + 1 - i], data |-> outs[i]]]

\* model.outputs.iter().zip(outputs).map(|(shape, output)| Tensor {..}).collect()
\* zip stops at the shorter of the two sequences.
Collect(shapes, outs) ==
    [i \in 1..Min(Len(shapes), Len(outs)) |->
        [name |-> shapes[i], data |-> outs[i]]]

\* Variant: the guard outlives load_session (it is handed to the caller).
GuardKeptByCaller(c) == c

\* The guard `sessions` (line 103) is a local of load_session: it is dropped
\* when load_session returns (line 136), so the mutex is free afterwards.
LockAfterLoad(c) == None

\* Variant: a dropped future releases the mutex whoever owns it.
DroppedByAnyone(l, c) == None

\* Variant: a dropped future leaves its guard behind.
GuardLeaked(l, c) == l

\* The owner of the mutex once the future of task c has been dropped: the
\* guard is a local of that future (line 103), dropped with it if the
\* future had got it; a future still waiting in lock().await holds none.
Dropped(l, c) == IF l = c THEN None ELSE l

\* TryInto of one engine-native slot descriptor: whether it can be
\* represented portably, and the portable descriptor it becomes.
Convertible(slot) == slot.ty # "unsupported"

Convert(slot) == [name |-> slot.name, kind |-> "F32"]

\* Variant: the slots that cannot be converted are left out.
ConvertAllSkipping(slots) ==
    [ok |-> TRUE,
     value |-> LET kept == SelectSeq(slots, Convertible)
               IN [i \in 1..Len(kept) |-> Convert(kept[i])]]

\* .iter().map(TryInto::try_into).collect::<Result<_>>(): the converted
\* slots in order, or the first error and nothing else.
ConvertAll(slots) ==
    IF \A i \in 1..Len(slots) : Convertible(slots[i])
    THEN [ok |-> TRUE, value |-> [i \in 1..Len(slots) |-> Convert(slots[i])]]
    ELSE [ok |-> FALSE, value |-> <<>>]

\* Where a task continues once load_session returned Ok(session).
AfterLoad(o) == IF o = "call_raw" THEN "run" ELSE "describe"

\* ----------------------------------------------------------------- Init
Init ==
    /\ sessions = [p \in Paths |-> None]
    /\ lock = None
    /\ pc = [c \in Callers |-> "idle"]
    /\ op = [c \in Callers |-> "call_raw"]
    /\ path = [c \in Callers |-> FirstPath]
    /\ model = [c \in Callers |-> <<>>]
    /\ len = [c \in Callers |-> Unread]
    /\ buf = [c \in Callers |-> Unread]
    /\ session = [c \in Callers |-> None]
    /\ raw = [c \in Callers |-> <<>>]
    /\ outputs = [c \in Callers |-> <<>>]
    /\ result = [c \in Callers |-> NoResult]
    /\ native = [c \in Callers |-> NoSlots]
    /\ descriptor = [c \in Callers |-> <<>>]
    /\ calls = 0
    /\ fetchCount = [p \in Paths |-> 0]
    /\ buildCount = [p \in Paths |-> 0]
    /\ failed = [p \in Paths |-> FALSE]
    /\ created = {}
    /\ inserted = {}
    /\ requested = {}
    /\ snap = [p \in Paths |-> None]

\* -------------------------------------------------------------- actions
\* A task calls call_raw(model, inputs) or load_model(path); both start with
\* load_session, whose first suspension point is sessions.lock().await.
Call(c) ==
    /\ pc[c] = "idle"
    /\ UNCHANGED <<native, descriptor>>
    /\ calls < MaxCalls
    /\ \E o \in Ops, p \in Paths, m \in OutputShapes :
        /\ o = "load_model" => m = <<>>
        /\ op' = [op EXCEPT ![c] = o]
        /\ path' = [path EXCEPT ![c] = p]
        /\ model' = [model EXCEPT ![c] = m]
        /\ requested' = requested \cup {p}
    /\ pc' = [pc EXCEPT ![c] = "lock"]
    /\ calls' = calls + 1
    /\ UNCHANGED <<sessions, lock, len, buf, session, raw, outputs, result,
                   hist, snap>>

\* Lines 103-111: the lock is granted and sessions.get(path) is matched.
\* Some: Ok(session.clone()) is returned and the guard dropped.
\* None: get_raw(path) is called and awaited with the guard held.
Acquire(c) ==
    /\ pc[c] = "lock"
    /\ UNCHANGED <<requested, native, descriptor>>
    /\ LockFree(lock)
    /\ snap' = sessions
    /\ \/ /\ Lookup(sessions, path[c]) # None
          /\ session' = [session EXCEPT ![c] = Lookup(sessions, path[c])]
          /\ pc' = [pc EXCEPT ![c] = AfterLoad(op[c])]
          /\ lock' = LockAfterLoad(c)
          /\ UNCHANGED fetchCount
       \/ /\ Lookup(sessions, path[c]) = None
          /\ pc' = [pc EXCEPT ![c] = "get_raw"]
          /\ lock' = c
          /\ fetchCount' = [fetchCount EXCEPT ![path[c]] = @ + 1]
          /\ UNCHANGED session
    /\ UNCHANGED <<sessions, locals, len, buf, raw, outputs, result, calls,
                   buildCount, failed, created, inserted>>

\* An error leaves load_session through `?` or bail!: the guard is dropped,
\* and the `?` of call_raw (148) or load_model (168) hands the error on.
LoadFails(c, e) ==
    /\ pc' = [pc EXCEPT ![c] = "done"]
    /\ result' = [result EXCEPT ![c] = Err(e)]
    /\ lock' = None
    /\ failed' = [failed EXCEPT ![path[c]] = TRUE]
    /\ UNCHANGED <<sessions, locals, session, raw, outputs, calls, fetchCount,
                   created, inserted>>
    /\ snap' = sessions'

\* Line 111-114: get_raw(path).await completes; on Ok the buffer is
\* allocated and read_u64 awaited.
GetRawDone(c) ==
    /\ pc[c] = "get_raw"
    /\ UNCHANGED <<requested, native, descriptor>>
    /\ \/ LoadFails(c, "get_raw") /\ UNCHANGED <<len, buf, buildCount>>
       \/ /\ pc' = [pc EXCEPT ![c] = "read_u64"]
          /\ UNCHANGED <<sessions, lock, locals, len, buf, session, raw,
                         outputs, result, calls, hist, snap>>

\* Lines 114-119: recv.read_u64().await completes; the prefix is compared
\* with path.len and, when equal, read_to_end awaited.
ReadU64Done(c) ==
    /\ pc[c] = "read_u64"
    /\ UNCHANGED <<requested, native, descriptor>>
    /\ \/ LoadFails(c, "read_u64") /\ UNCHANGED <<len, buf, buildCount>>
       \/ \E l \in Lengths :
            /\ len' = [len EXCEPT ![c] = l]
            /\ \/ /\ ~LengthValid(l, path[c])
                  /\ LoadFails(c, "length")
                  /\ UNCHANGED <<buf, buildCount>>
               \/ /\ LengthValid(l, path[c])
                  /\ pc' = [pc EXCEPT ![c] = "read_to_end"]
                  /\ UNCHANGED <<sessions, lock, locals, buf, session, raw,
                                 outputs, result, calls, hist, snap>>

\* Lines 119-133: recv.read_to_end(&mut buf).await completes with n bytes in
\* buf: an I/O error returns through `?`; at end of stream (read_to_end
\* returns Ok however few bytes came) the assertion compares n with path.len
\* and panics when they differ: the unwinding drops the guard (a tokio Mutex
\* is not poisoned) and the task is gone; otherwise the session is built
\* from buf, and on success wrapped in an Arc, inserted and returned.
\* path.len.try_into() (u64 to usize, line 112) cannot fail for the lengths
\* tried here.
ReadToEndDone(c) ==
    /\ pc[c] = "read_to_end"
    /\ UNCHANGED <<requested, native, descriptor>>
    /\ \E n \in Lengths :
        /\ buf' = [buf EXCEPT ![c] = n]
        /\ \/ LoadFails(c, "read_to_end") /\ UNCHANGED <<len, buildCount>>
           \/ /\ ~AssertLen(n, path[c])
              /\ pc' = [pc EXCEPT ![c] = "aborted"]
              /\ result' = [result EXCEPT ![c] = Panic]
              /\ lock' = None
              /\ failed' = [failed EXCEPT ![path[c]] = TRUE]
              /\ UNCHANGED <<sessions, locals, len, session, raw, outputs,
                             calls, fetchCount, buildCount, created, inserted>>
              /\ snap' = sessions'
           \/ /\ AssertLen(n, path[c])
              /\ buildCount' = [buildCount EXCEPT ![path[c]] = @ + 1]
              /\ \/ /\ sessions' = LoadedTable(sessions, path[c], NewHandle, FALSE)
                    /\ pc' = [pc EXCEPT ![c] = "done"]
                    /\ result' = [result EXCEPT ![c] = Err("build")]
                    /\ lock' = None
                    /\ failed' = [failed EXCEPT ![path[c]] = TRUE]
                    /\ snap' = sessions'
                    /\ UNCHANGED <<locals, len, session, raw, outputs, calls,
                                   fetchCount, created, inserted>>
                 \/ /\ sessions' = LoadedTable(sessions, path[c], NewHandle, TRUE)
                    /\ created' = created \cup
                          {[handle |-> NewHandle, path |-> path[c], bytes |-> n]}
                    /\ inserted' = inserted \cup {<<path[c], NewHandle>>}
                    /\ session' = [session EXCEPT ![c] = NewHandle]
                    /\ pc' = [pc EXCEPT ![c] = AfterLoad(op[c])]
                    /\ lock' = LockAfterLoad(c)
                    /\ snap' = sessions'
                    /\ UNCHANGED <<locals, len, raw, outputs, result, calls,
                                   fetchCount, failed>>

\* Lines 151-164: session.run(&inputs) returns; an error leaves through `?`,
\* raw outputs are zipped with model.outputs into the returned tensors.
Run(c) ==
    /\ pc[c] = "run"
    /\ UNCHANGED <<requested, native, descriptor>>
    /\ \/ /\ result' = [result EXCEPT ![c] = Err("run")]
          /\ UNCHANGED <<raw, outputs>>
       \/ \E r \in RawOutputs :
            /\ raw' = [raw EXCEPT ![c] = r]
            /\ outputs' = [outputs EXCEPT ![c] = Collect(model[c], r)]
            /\ result' = [result EXCEPT ![c] = Ok]
    /\ pc' = [pc EXCEPT ![c] = "done"]
    /\ UNCHANGED <<sessions, lock, locals, len, buf, session, calls, hist, snap>>

\* Lines 167-183: load_model reads session.inputs and session.outputs (they
\* are drawn here, where they are first read) and converts each slot in
\* order; the first failing TryInto leaves through `?`, otherwise the Model
\* is returned with the path it was asked for.
Describe(c) ==
    /\ pc[c] = "describe"
    /\ UNCHANGED requested
    /\ \E ins, outs \in NativeSlots :
        /\ native' = [native EXCEPT ![c] = [inputs |-> ins, outputs |-> outs]]
        /\ IF ConvertAll(ins).ok /\ ConvertAll(outs).ok
           THEN /\ result' = [result EXCEPT ![c] = Ok]
                /\ descriptor' = [descriptor EXCEPT ![c] =
                      <<[path |-> path[c],
                         inputs |-> ConvertAll(ins).value,
                         outputs |-> ConvertAll(outs).value]>>]
           ELSE /\ result' = [result EXCEPT ![c] = Err("try_into")]
                /\ UNCHANGED descriptor
    /\ pc' = [pc EXCEPT ![c] = "done"]
    /\ UNCHANGED <<sessions, lock, locals, len, buf, session, raw, outputs,
                   calls, hist, snap>>

\* The caller has taken the call's result and the call's frame is gone
\* (its arguments and locals are dropped); the task may call again.
Return(c) ==
    /\ pc[c] = "done"
    /\ UNCHANGED requested
    /\ pc' = [pc EXCEPT ![c] = "idle"]
    /\ op' = [op EXCEPT ![c] = "call_raw"]
    /\ path' = [path EXCEPT ![c] = FirstPath]
    /\ model' = [model EXCEPT ![c] = <<>>]
    /\ len' = [len EXCEPT ![c] = Unread]
    /\ buf' = [buf EXCEPT ![c] = Unread]
    /\ session' = [session EXCEPT ![c] = None]
    /\ raw' = [raw EXCEPT ![c] = <<>>]
    /\ outputs' = [outputs EXCEPT ![c] = <<>>]
    /\ result' = [result EXCEPT ![c] = NoResult]
    /\ native' = [native EXCEPT ![c] = NoSlots]
    /\ descriptor' = [descriptor EXCEPT ![c] = <<>>]
    /\ UNCHANGED <<sessions, lock, calls, hist, snap>>

\* The future of a call is dropped at one of its suspension points: a
\* waiter leaves the mutex's queue, an owner's guard is dropped.
Cancel(c) ==
    /\ pc[c] \in {"lock", "get_raw", "read_u64", "read_to_end"}
    /\ UNCHANGED <<requested, native, descriptor>>
    /\ UNCHANGED <<sessions, locals, len, buf, session, raw, outputs, calls,
                   fetchCount, buildCount, created, inserted>>
    /\ pc' = [pc EXCEPT ![c] = "done"]
    /\ result' = [result EXCEPT ![c] =
            Cancelled(IF lock = c THEN "owner"
                      ELSE IF lock # None THEN "behind" ELSE "free")]
    /\ lock' = Dropped(lock, c)
    /\ \/ /\ lock = c
          /\ failed' = [failed EXCEPT ![path[c]] = TRUE]
          /\ snap' = sessions'
       \/ /\ lock # c
          /\ UNCHANGED <<failed, snap>>

Next ==
    \E c \in Callers :
        \/ Call(c)
        \/ Acquire(c)
        \/ GetRawDone(c)
        \/ ReadU64Done(c)
        \/ ReadToEndDone(c)
        \/ Run(c)
        \/ Describe(c)
        \/ Return(c)
        \/ Cancel(c)

Spec == Init /\ [][Next]_vars

\* ------------------------------------------------------ state predicates
\* The task's current call got its handle from load_session.
Loaded(c) == session[c] # None

\* ... and got it from the table (Some branch), reading nothing.
Hit(c) == Loaded(c) /\ len[c] = Unread

\* ... and got it by fetching and building it itself (None branch).
Built(c) == Loaded(c) /\ len[c] # Unread

\* The suspension points of the None branch (lines 111-119).
Fetching == {"get_raw", "read_u64", "read_to_end"}

TypeOK ==
    /\ sessions \in [Paths -> 0..MaxCalls]
    /\ lock \in Callers \cup {None}
    /\ calls \in 0..MaxCalls
    /\ len \in [Callers -> Lengths \cup {Unread}]
    /\ buf \in [Callers -> Lengths \cup {Unread}]
    /\ session \in [Callers -> 0..MaxCalls]

\* ------------------------------------------------------------------ C1
\* C1: as long as no load of a path has failed or been abandoned, the path
\* has seen at most one get_raw call and at most one engine build, however
\* many tasks asked for it concurrently; and every task that holds a handle
\* for the path holds the one stored in the table, with exactly one get_raw
\* call and exactly one build made for it.
C1_IdempotentBuild ==
    \A p \in Paths :
        ~failed[p] =>
            /\ fetchCount[p] <= 1
            /\ buildCount[p] <= 1
            /\ \A c \in Callers :
                (path[c] = p /\ Loaded(c)) =>
                    /\ session[c] = sessions[p]
                    /\ fetchCount[p] = 1
                    /\ buildCount[p] = 1

\* Every task holds the handle of the same path at once, one of them having
\* built it and another having found it, and no load of the path failed.
C1_Witness ==
    \E p \in Paths :
        /\ ~failed[p]
        /\ \A c \in Callers : path[c] = p /\ Loaded(c) /\ pc[c] \in {"run", "describe"}
        /\ \E c, d \in Callers : Built(c) /\ Hit(d)

\* ------------------------------------------------------------------ C2
\* C2: in every reachable state, at most one distinct handle has ever been
\* given to sessions.insert for each path, and the table holds, for a path,
\* nothing but that handle.
C2_AtMostOneHandle ==
    /\ \A x, y \in inserted : x[1] = y[1] => x[2] = y[2]
    /\ \A p \in Paths : sessions[p] # None => <<p, sessions[p]>> \in inserted

\* A load of the path failed, a retry built and inserted the handle, and a
\* later call found it: three calls made, two of them fetching.
C2_Witness ==
    \E p \in Paths :
        /\ failed[p]
        /\ sessions[p] # None
        /\ fetchCount[p] >= 2
        /\ \E c \in Callers : path[c] = p /\ Hit(c)

\* ------------------------------------------------------------------ C3
\* C3: once the table holds a handle for a path (a load_session of it has
\* returned Ok), no step makes a get_raw call or an engine build for that
\* path, and every load_session of the path that gets the lock returns the
\* stored handle.
C3_NoRefetchOnHit ==
    [][\A p \in Paths :
        sessions[p] # None =>
            /\ fetchCount'[p] = fetchCount[p]
            /\ buildCount'[p] = buildCount[p]
            /\ \A c \in Callers :
                (path[c] = p /\ pc[c] = "lock" /\ pc'[c] \notin {"lock", "done"}) =>
                    /\ pc'[c] = AfterLoad(op[c])
                    /\ session'[c] = sessions[p]]_vars

\* A call_raw and a load_model both found the handle of a path that was
\* fetched and built once.
C3_Witness ==
    \E p \in Paths, c, d \in Callers :
        /\ c # d
        /\ path[c] = p /\ path[d] = p
        /\ Hit(c) /\ Hit(d)
        /\ op[c] = "call_raw" /\ op[d] = "load_model"
        /\ fetchCount[p] = 1 /\ buildCount[p] = 1

\* ------------------------------------------------------------------ C4
\* C4: whenever a load_session that took the lock leaves with an error or
\* with the assertion's panic (get_raw, read_u64, the prefix check,
\* read_to_end, the assertion, the engine build), the table it leaves behind
\* is the table it found when it took the lock.
C4_FailedLoadLeavesTable ==
    [][\A c \in Callers :
        (lock = c /\ lock' # c /\ result'[c].kind \in {"Err", "Panic"}) =>
            sessions' = snap]_vars

\* An engine build has just failed while the table already held another
\* path's handle.
C4_Witness ==
    \E c \in Callers :
        /\ pc[c] = "done"
        /\ result[c] = Err("build")
        /\ sessions[path[c]] = None
        /\ \E p \in Paths : sessions[p] # None

\* ------------------------------------------------------------------ C5
\* C5: when read_u64 delivers a prefix different from path.len, load_session
\* fails with the length error in that very step: read_to_end is never
\* started, no engine build is made, the lock is released and the table is
\* unchanged and holds nothing for the path; and any load_session that takes
\* the lock while the table holds nothing for its path (such as the retry
\* after this failure) makes a fresh get_raw call.
C5_IntegrityEnforced ==
    [][\A c \in Callers :
        /\ (pc[c] = "read_u64" /\ len'[c] # Unread /\ len'[c] # path[c].len) =>
              /\ pc'[c] = "done"
              /\ result'[c] = Err("length")
              /\ buf'[c] = Unread
              /\ buildCount' = buildCount
              /\ created' = created
              /\ lock' = None
              /\ sessions' = sessions
              /\ sessions'[path[c]] = None
        /\ (pc[c] = "lock" /\ pc'[c] \notin {"lock", "done"}
                /\ sessions[path[c]] = None) =>
              /\ pc'[c] = "get_raw"
              /\ fetchCount'[path[c]] = fetchCount[path[c]] + 1]_vars

\* One task's load has failed on the prefix; another task's later load of the
\* same path fetched afresh, passed the checks and was built.
C5_Witness ==
    \E c, d \in Callers :
        /\ pc[c] = "done" /\ result[c] = Err("length")
        /\ path[d] = path[c]
        /\ Built(d)
        /\ len[d] = path[d].len
        /\ fetchCount[path[d]] = 2
        /\ sessions[path[d]] = session[d]

\* ------------------------------------------------------------------ C6
\* C6: every Session ever built was built from exactly path.len bytes, and
\* every handle in the table is such a Session built for its path; a stream
\* whose prefix is right but whose payload is shorter or longer never gets
\* as far as the build.
C6_BuiltFromDeclaredLength ==
    /\ \A r \in created : r.bytes = r.path.len
    /\ \A p \in Paths :
        sessions[p] # None =>
            [handle |-> sessions[p], path |-> p, bytes |-> p.len] \in created
    /\ \A c \in Callers :
        (len[c] = path[c].len /\ buf[c] # Unread /\ buf[c] # path[c].len) =>
            ~Loaded(c)

\* A stream with the right prefix delivered a longer payload and another one
\* a shorter payload; a third one was right and was built.
C6_Witness ==
    \E c, d \in Callers :
        /\ len[c] = path[c].len /\ buf[c] > path[c].len /\ pc[c] = "aborted"
        /\ len[d] = path[d].len /\ buf[d] # Unread /\ buf[d] < path[d].len
        /\ pc[d] = "aborted"
        /\ created # {}

\* ------------------------------------------------------------------ C7
\* C7: if session.run returned a number of raw outputs different from the
\* number of descriptors in model.outputs, call_raw ends with an error and
\* returns no tensors.
C7_CountMismatchFails ==
    \A c \in Callers :
        (pc[c] = "done" /\ op[c] = "call_raw" /\ Loaded(c)
            /\ Len(raw[c]) # Len(model[c])) =>
                /\ result[c].kind = "Err"
                /\ outputs[c] = <<>>

\* ------------------------------------------------------------------ C8
\* C8: when session.run returned as many raw outputs as model.outputs has
\* descriptors, call_raw returns Ok with as many tensors, the i-th having
\* the i-th descriptor's name and the i-th raw output's data.
C8_OutputsNamedInOrder ==
    \A c \in Callers :
        (pc[c] = "done" /\ op[c] = "call_raw" /\ result[c] = Ok
            /\ Len(raw[c]) = Len(model[c])) =>
                /\ Len(outputs[c]) = Len(model[c])
                /\ \A i \in 1..Len(model[c]) :
                    /\ outputs[c][i].name = model[c][i]
                    /\ outputs[c][i].data = raw[c][i]

\* A call_raw has returned for a model with MaxOutputs (at least two)
\* outputs, the engine having returned as many, with different data.
C8_Witness ==
    \E c \in Callers :
        /\ pc[c] = "done" /\ op[c] = "call_raw" /\ result[c] = Ok
        /\ Len(model[c]) = MaxOutputs /\ Len(raw[c]) = MaxOutputs
        /\ MaxOutputs >= 2
        /\ raw[c][1] # raw[c][2]

\* ------------------------------------------------------------------ C9
\* C9: the step in which session.run fails changes nothing in the table,
\* which still holds the very handle that was run; and while that failed
\* call's error is with its caller, the table keeps that handle, no get_raw
\* call and no build is made for the path, and every call for the path that
\* gets the lock is handed the same handle and goes on to run or describe.
C9_RunFailureKeepsHandle ==
    [][\A c \in Callers :
        /\ (pc[c] = "run" /\ result'[c] = Err("run")) =>
              /\ sessions' = sessions
              /\ Loaded(c)
              /\ sessions'[path[c]] = session[c]
        /\ (pc[c] = "done" /\ result[c] = Err("run")) =>
              /\ sessions'[path[c]] = session[c]
              /\ fetchCount'[path[c]] = fetchCount[path[c]]
              /\ buildCount'[path[c]] = buildCount[path[c]]
              /\ \A d \in Callers :
                  (path[d] = path[c] /\ pc[d] = "lock"
                        /\ pc'[d] \notin {"lock", "done"}) =>
                      /\ pc'[d] = AfterLoad(op[d])
                      /\ session'[d] = session[c]]_vars

\* A run has failed, and a later call_raw of the same path has found the same
\* handle and returned Ok without any further fetch or build.
C9_Witness ==
    \E c, d \in Callers :
        /\ pc[c] = "done" /\ result[c] = Err("run")
        /\ path[d] = path[c] /\ op[d] = "call_raw"
        /\ pc[d] = "done" /\ result[d] = Ok
        /\ Hit(d) /\ session[d] = session[c]
        /\ fetchCount[path[c]] = 1 /\ buildCount[path[c]] = 1

\* ----------------------------------------------------------------- C10
\* C10: if the stream ended before path.len payload bytes were delivered,
\* the prefix having been right, the call ends with an error value handed
\* to its caller (it is not the end of the task).
C10_TruncatedIsError ==
    \A c \in Callers :
        (len[c] = path[c].len /\ buf[c] # Unread /\ buf[c] < path[c].len) =>
            /\ pc[c] = "done"
            /\ result[c].kind = "Err"

\* ----------------------------------------------------------------- C11
\* C11: no task that is inside session.run (or past load_session in any
\* way) owns the mutex: the owner, if any, is a task at a suspension point
\* of load_session's None branch; so a task inside run leaves the mutex to
\* whoever asks for it.
C11_LockNotHeldInRun ==
    /\ \A c \in Callers : pc[c] \notin Fetching => lock # c
    /\ \A c, d \in Callers :
        (pc[c] = "run" /\ pc[d] = "lock" /\ \A e \in Callers : pc[e] \notin Fetching)
            => ENABLED Acquire(d)

\* Two tasks are inside run on the same handle at the same time, the mutex
\* free.
C11_Witness ==
    \E c, d \in Callers :
        /\ c # d
        /\ pc[c] = "run" /\ pc[d] = "run"
        /\ session[c] = session[d]
        /\ Loaded(c)
        /\ lock = None

\* ----------------------------------------------------------------- C12
\* C12: at most one task is between get_raw and the insert, whatever the
\* paths, and it is the owner of the mutex; the table changes only in a step
\* of the owner; and while the mutex is owned no waiting task gets past
\* lock().await (it stays, or its call is dropped), be its path cached or
\* not.
C12_OneLoaderAtATime ==
    [][/\ Cardinality({c \in Callers : pc[c] \in Fetching}) <= 1
       /\ \A c \in Callers : pc[c] \in Fetching <=> lock = c
       /\ \A c \in Callers : pc'[c] \in Fetching <=> lock' = c
       /\ sessions' # sessions =>
            \E c \in Callers : lock = c /\ pc[c] = "read_to_end" /\ pc'[c] # pc[c]
       /\ \A c \in Callers :
            (lock # None /\ pc[c] = "lock") => pc'[c] \in {"lock", "done"}]_vars

\* One task is loading a path while another waits to load a different path
\* that is not in the table either.
C12_Witness ==
    \E c, d \in Callers :
        /\ pc[c] \in Fetching
        /\ pc[d] = "lock"
        /\ path[d] # path[c]
        /\ sessions[path[d]] = None

\* ----------------------------------------------------------------- C13
\* C13 (as stated): a task waiting in load_session for a path that is
\* already in the table can always go on, also while another task's fetch
\* is stalled.
C13_CachedLookupNeverBlocked ==
    \A c \in Callers :
        (pc[c] = "lock" /\ sessions[path[c]] # None) => ENABLED Acquire(c)

\* C13 (amended): while a task owns the mutex (its fetch may be stalled), no
\* task waiting in lock().await can go on, whether its path is in the table
\* or not; the tasks that already have their handle (inside run or in
\* load_model's conversion) can always go on.
C13_StalledFetchBlocksEveryWaiter ==
    \A c \in Callers :
        /\ (pc[c] = "lock" /\ lock # None) => ~ENABLED Acquire(c)
        /\ (pc[c] = "lock" /\ lock = None) => ENABLED Acquire(c)
        /\ pc[c] = "run" => ENABLED Run(c)
        /\ pc[c] = "describe" => ENABLED Describe(c)

\* A fetch is pending in get_raw while another task waits for a path that
\* is already in the table.
C13_Witness ==
    \E c, d \in Callers :
        /\ pc[c] = "get_raw"
        /\ pc[d] = "lock"
        /\ sessions[path[d]] # None

\* ----------------------------------------------------------------- C14
\* Every entry of the table is a Session that was built in full for its path.
TableComplete ==
    \A p \in Paths :
        sessions[p] # None =>
            \E r \in created : r.handle = sessions[p] /\ r.path = p

\* C14: the step that drops a call waiting in lock().await while another
\* task owns the mutex changes neither the table nor the owner of the mutex
\* nor anything of the other tasks' loads; the owner's load, when it then
\* completes, inserts the handle it built; and the table holds complete
\* entries only, in every state.
C14_WaiterCancelChangesNothing ==
    [][/\ \A c \in Callers :
            (pc[c] = "lock" /\ lock # None /\ result'[c].kind = "Cancelled") =>
                /\ sessions' = sessions
                /\ lock' = lock
                /\ snap' = snap
                /\ fetchCount' = fetchCount /\ buildCount' = buildCount
                /\ created' = created /\ inserted' = inserted
                /\ failed' = failed
                /\ \A d \in Callers \ {c} :
                    /\ pc'[d] = pc[d] /\ len'[d] = len[d]
                    /\ buf'[d] = buf[d] /\ session'[d] = session[d]
       /\ \A d \in Callers :
            (lock = d /\ pc'[d] \in {"run", "describe"}) =>
                /\ session'[d] # None
                /\ sessions' = Insert(sessions, path[d], session'[d])
       /\ TableComplete
       /\ TableComplete']_vars

\* A call for a path was dropped while it waited behind the owner of the
\* mutex, and the owner, loading that same path, has built and inserted its
\* handle.
C14_Witness ==
    \E c, d \in Callers :
        /\ pc[c] = "done" /\ result[c] = Cancelled("behind")
        /\ path[d] = path[c]
        /\ Built(d)
        /\ sessions[path[d]] = session[d]
        /\ fetchCount[path[d]] = 1
        /\ calls = 2

\* ----------------------------------------------------------------- C15
\* Every pending step of a load ends (get_raw, read_u64 and read_to_end
\* complete, with success or failure), and the mutex is granted fairly: a
\* tokio Mutex serves its waiters in the order they asked.
Fairness ==
    \A c \in Callers :
        /\ WF_vars(GetRawDone(c))
        /\ WF_vars(ReadU64Done(c))
        /\ WF_vars(ReadToEndDone(c))
        /\ SF_vars(Acquire(c))

FairSpec == Spec /\ Fairness

\* C15: under fair lock acquisition and terminating fetch and build steps,
\* every load_session that was called eventually returns a handle or an
\* error to its caller (or its call is dropped by the caller).
C15_EveryLoadReturns ==
    \A c \in Callers :
        (pc[c] = "lock") ~>
            (Loaded(c) \/ (pc[c] = "done" /\ result[c].kind \in {"Err", "Cancelled"}))

\* What holds instead: every load_session that was called eventually ends,
\* by returning a handle or an error, by being dropped, or by the panic of
\* the assertion at line 120; and whenever no load is in progress the mutex
\* is free.
C15_EveryLoadEnds ==
    \A c \in Callers :
        (pc[c] = "lock") ~> (Loaded(c) \/ pc[c] \in {"done", "aborted"})

C15_LockFreedOnEveryExit ==
    (\A c \in Callers : pc[c] \notin Fetching) => lock = None

\* ----------------------------------------------------------------- C16
\* The keys of the table.
Cached == {p \in Paths : sessions[p] # None}

\* C16: in every step every path of the table stays in it with the same
\* handle (nothing is evicted or replaced), and the table's keys are always
\* among the paths load_session has been called with.
C16_TableOnlyGrows ==
    [][/\ \A p \in Paths : sessions[p] # None => sessions'[p] = sessions[p]
       /\ Cached \subseteq Cached'
       /\ Cached \subseteq requested
       /\ Cached' \subseteq requested']_vars

\* The table has grown to hold two paths, a third call having found one of
\* them.
C16_Witness ==
    /\ Cardinality(Cached) >= 2
    /\ \E c \in Callers : Hit(c)

\* ----------------------------------------------------------------- C17
\* C17: a load_session that fails leaves no entry for its path; after a
\* failed load of a path, the next load_session of the path that gets the
\* lock (the table still holding nothing for it) calls get_raw anew; when
\* its stream passes the checks it makes a new build attempt, and when that
\* succeeds the handle is inserted and returned.
C17_NoNegativeCaching ==
    [][\A c \in Callers :
        LET p == path[c] IN
        /\ (lock = c /\ lock' # c /\ result'[c].kind \in {"Err", "Panic"}) =>
              sessions'[p] = None
        /\ (failed[p] /\ sessions[p] = None /\ pc[c] = "lock"
                /\ pc'[c] \notin {"lock", "done"}) =>
              /\ pc'[c] = "get_raw"
              /\ fetchCount'[p] = fetchCount[p] + 1
        /\ (failed[p] /\ pc[c] = "read_to_end" /\ buf'[c] = p.len
                /\ result'[c].kind \notin {"Cancelled"}
                /\ result'[c] # Err("read_to_end")) =>
              buildCount'[p] = buildCount[p] + 1
        /\ (failed[p] /\ pc[c] = "read_to_end" /\ pc'[c] \in {"run", "describe"}) =>
              /\ session'[c] # None
              /\ sessions'[p] = session'[c]]_vars

\* An engine build failed for a path, and a later load_session of the same
\* path fetched again, built again and got its handle inserted.
C17_Witness ==
    \E c, d \in Callers :
        /\ pc[c] = "done" /\ result[c] = Err("build")
        /\ path[d] = path[c]
        /\ Built(d)
        /\ sessions[path[d]] = session[d]
        /\ fetchCount[path[d]] = 2
        /\ buildCount[path[d]] = 2

\* ----------------------------------------------------------------- C18
\* C18: a load_model that returns Ok returns a Model whose path is the path
\* asked for and whose inputs and outputs have as many descriptors as the
\* session reported slots, the i-th being the conversion of the i-th slot;
\* and if any slot of the session cannot be converted, load_model returns
\* the error and no Model at all.
C18_DescriptorMatchesHandle ==
    \A c \in Callers :
        (pc[c] = "done" /\ op[c] = "load_model" /\ Loaded(c)) =>
            LET ins == native[c].inputs
                outs == native[c].outputs
                bad == \/ \E i \in 1..Len(ins) : ~Convertible(ins[i])
                       \/ \E i \in 1..Len(outs) : ~Convertible(outs[i])
            IN  /\ bad => (result[c] = Err("try_into") /\ descriptor[c] = <<>>)
                /\ ~bad =>
                    /\ result[c] = Ok
                    /\ Len(descriptor[c]) = 1
                    /\ descriptor[c][1].path = path[c]
                    /\ Len(descriptor[c][1].inputs) = Len(ins)
                    /\ Len(descriptor[c][1].outputs) = Len(outs)
                    /\ \A i \in 1..Len(ins) :
                        descriptor[c][1].inputs[i] = Convert(ins[i])
                    /\ \A i \in 1..Len(outs) :
                        descriptor[c][1].outputs[i] = Convert(outs[i])

\* One load_model has returned a Model with MaxOutputs (at least two) inputs
\* and as many outputs, and another has failed on a session whose second
\* output alone cannot be converted.
C18_Witness ==
    \E c, d \in Callers :
        /\ pc[c] = "done" /\ op[c] = "load_model" /\ result[c] = Ok
        /\ Len(descriptor[c]) = 1
        /\ Len(descriptor[c][1].inputs) = MaxOutputs
        /\ Len(descriptor[c][1].outputs) = MaxOutputs
        /\ MaxOutputs >= 2
        /\ pc[d] = "done" /\ op[d] = "load_model" /\ result[d] = Err("try_into")
        /\ Len(native[d].outputs) >= 2
        /\ Convertible(native[d].outputs[1])
        /\ ~Convertible(native[d].outputs[2])
        /\ \A i \in 1..Len(native[d].inputs) : Convertible(native[d].inputs[i])

\* ----------------------------------------------------------------- C19
\* C19: call_raw and load_model use the one table, and a load is in the
\* table before its caller goes on: whenever a task is past load_session
\* with a handle (about to run or to convert, or done with either, also
\* when the run or the conversion failed), the table holds that very handle
\* for the path and keeps it, no step makes a get_raw call or a build for
\* the path, and every call_raw or load_model of the path that gets the lock
\* is handed the same handle.
C19_SharedTableCommitted ==
    [][\A c \in Callers :
        (pc[c] \in {"run", "describe", "done"} /\ Loaded(c)) =>
            LET p == path[c] IN
            /\ sessions[p] = session[c]
            /\ sessions'[p] = session[c]
            /\ fetchCount'[p] = fetchCount[p]
            /\ buildCount'[p] = buildCount[p]
            /\ \A d \in Callers :
                (path[d] = p /\ pc[d] = "lock" /\ pc'[d] \notin {"lock", "done"}) =>
                    /\ pc'[d] = AfterLoad(op[d])
                    /\ session'[d] = session[c]]_vars

\* A load_model has built the handle of a path and then failed in the
\* conversion; a call_raw of the same path has since found the same handle
\* without any fetch or build.
C19_Witness ==
    \E c, d \in Callers :
        /\ pc[c] = "done" /\ op[c] = "load_model"
        /\ result[c] = Err("try_into") /\ Built(c)
        /\ path[d] = path[c] /\ op[d] = "call_raw"
        /\ pc[d] \in {"run", "done"}
        /\ Hit(d) /\ session[d] = session[c]
        /\ fetchCount[path[c]] = 1 /\ buildCount[path[c]] = 1

\* ----------------------------------------------------------------- C20
\* C20: the step that drops the call of the task owning the mutex (at
\* get_raw, read_u64 or read_to_end, before the insert) leaves the table as
\* that task found it, with nothing for its path, makes no build, and frees
\* the mutex, so that every waiting task can get it; and the next
\* load_session of that path to get it finds nothing in the table and calls
\* get_raw itself.
C20_OwnerCancelAbandonsLoad ==
    [][\A c \in Callers :
        /\ (lock = c /\ result'[c].kind = "Cancelled") =>
              /\ pc[c] \in Fetching
              /\ sessions' = snap
              /\ sessions' = sessions
              /\ sessions'[path[c]] = None
              /\ buildCount' = buildCount
              /\ created' = created /\ inserted' = inserted
              /\ lock' = None
        /\ \A d \in Callers :
            (pc[c] = "done" /\ result[c] = Cancelled("owner")
                /\ path[d] = path[c] /\ sessions[path[d]] = None
                /\ pc[d] = "lock" /\ pc'[d] \notin {"lock", "done"}) =>
                  /\ lock = None
                  /\ pc'[d] = "get_raw"
                  /\ lock' = d
                  /\ fetchCount'[path[d]] = fetchCount[path[d]] + 1]_vars

\* The owner's call was dropped during its fetch; a task that was asking
\* for the same path has since got the lock, fetched and built the handle
\* itself.
C20_Witness ==
    \E c, d \in Callers :
        /\ pc[c] = "done" /\ result[c] = Cancelled("owner")
        /\ path[d] = path[c]
        /\ Built(d)
        /\ sessions[path[d]] = session[d]
        /\ fetchCount[path[d]] = 2
        /\ buildCount[path[d]] = 1

====
